---- MODULE Spec2Model ----
(***************************************************************************)
(* Churn analyser (src/api.js): the unified-diff parser parsePatch with    *)
(* finalizeHunk / determineHunkType, and the line classifier classifyLine. *)
(*                                                                         *)
(* A patch line is a sequence of one-character strings, so that            *)
(* startsWith, substring, the blank-line test and the hunk-header regular  *)
(* expression are computed on the characters as the code computes them.    *)
(* patch.split("\n") is modelled by feeding the lines one at a time; the   *)
(* split of any string has at least one element.                           *)
(***************************************************************************)
EXTENDS Integers, Sequences, FiniteSets, TLC

VARIABLES
    lines,        \* the lines of the patch consumed so far by the for loop
    addedLines,   \* parsePatch: the result array
    newLineNum,   \* parsePatch: new-file counter
    oldLineNum,   \* parsePatch: old-file counter
    currentHunk,  \* parsePatch: the hunk buffer
    pc,           \* "loop" while the for loop runs, "done" after the return
    response,     \* getFileBlameFiltered: the outcome of the blame query
    prShas,       \* getFileBlameFiltered: the SHAs of the commits of the PR
    filteredCount,\* analyzeFile: the number of ranges filtered out
    blameRanges,  \* analyzeFile: the blame ranges of the file
    call,         \* the arguments of the classifyLine call made
    result,       \* what classifyLine returned
    cpc,          \* "start", "blamed" (ranges fetched), "classified"
    analyzed,     \* main: the files passed to analyzeFile so far, with what was fetched
    summary,      \* main: the category counters
    allDetails,   \* main: the detail records
    calls,        \* the classifyLine calls made so far, with what they returned
    output,       \* saveResults: the object written to the output file
    mpc,          \* main: "files", "saved", "failed" (rejected, exit code 1)
    prCommits,    \* buildLastCommitByFile: the commits of the PR, oldest first
    walkIndex,    \* buildLastCommitByFile: the position the loop is at (i + 1)
    lastCommitByFile,    \* buildLastCommitByFile: filename -> { author, date, sha }
    commitDetailsCache,  \* buildLastCommitByFile: sha -> commit details
    fetched,      \* the details each position of prCommits was walked with
    wpc           \* buildLastCommitByFile: "list", "walk", "done", "failed"

parseVars == <<lines, addedLines, newLineNum, oldLineNum, currentHunk, pc>>
classVars == <<response, prShas, filteredCount, blameRanges, call, result, cpc>>
mainVars == <<analyzed, summary, allDetails, calls, output, mpc>>
walkVars == <<prCommits, walkIndex, lastCommitByFile, commitDetailsCache, fetched, wpc>>
vars == <<lines, addedLines, newLineNum, oldLineNum, currentHunk, pc,
          response, prShas, filteredCount, blameRanges, call, result, cpc,
          analyzed, summary, allDetails, calls, output, mpc,
          prCommits, walkIndex, lastCommitByFile, commitDetailsCache, fetched, wpc>>

(***************************************************************************)
(* Bounds                                                                  *)
(***************************************************************************)
MaxLines == 5      \* lines in a patch
MaxLine == 3       \* largest line number in blame ranges and calls
MaxRanges == 3     \* ranges in the answer of a blame query
MaxCommits == 3    \* commits of a pull request
MaxFiles == 2      \* files of a pull request

(***************************************************************************)
(* Constants of the program                                                *)
(***************************************************************************)
ADD_ONLY == "add-only"
DELETE_ONLY == "delete-only"
REPLACE == "replace"
HUNK_TYPES == {ADD_ONLY, DELETE_ONLY, REPLACE}

CHURN == "Churn"
REWORK == "Rework"
NEW_WORK == "New Work"
HELP_OTHERS == "Help Others"
CATEGORIES == {CHURN, REWORK, NEW_WORK, HELP_OTHERS}

MILLISECONDS_PER_DAY == 1000 * 60 * 60 * 24
DEFAULT_MAX_DELTA_DAYS == 21

(***************************************************************************)
(* Strings as character sequences                                          *)
(***************************************************************************)
At(s, i) == IF i \in 1..Len(s) THEN s[i] ELSE "<end>"

\* String.prototype.startsWith
StartsWith(s, p) == Len(s) >= Len(p) /\ SubSeq(s, 1, Len(p)) = p

\* line.substring(1)
Substring1(s) == SubSeq(s, 2, Len(s))

\* \s of the regular expressions
Whitespace == {" ", "\t", "\r"}

Digits == {"0", "1", "2", "3", "4", "5", "6", "7", "8", "9"}

DigitVal(c) ==
    CASE c = "0" -> 0 [] c = "1" -> 1 [] c = "2" -> 2 [] c = "3" -> 3
      [] c = "4" -> 4 [] c = "5" -> 5 [] c = "6" -> 6 [] c = "7" -> 7
      [] c = "8" -> 8 [] c = "9" -> 9

\* isBlankLine: /^\s*$/.test(lineContent)
isBlankLine(lineContent) ==
    \A i \in 1..Len(lineContent) : lineContent[i] \in Whitespace

\* the index after the longest run of digits that starts at i (\d+ is greedy)
RECURSIVE DigitsEnd(_, _)
DigitsEnd(s, i) == IF At(s, i) \in Digits THEN DigitsEnd(s, i + 1) ELSE i

\* parseInt(text, 10) of the digits s[i..j-1]
RECURSIVE parseInt(_, _, _)
parseInt(s, i, j) ==
    IF j <= i THEN 0 ELSE parseInt(s, i, j - 1) * 10 + DigitVal(s[j - 1])

\* (?:,\d+)? at i: the index after the group when it matches, else i
OptCount(s, i) ==
    IF At(s, i) = "," /\ DigitsEnd(s, i + 1) > i + 1
    THEN DigitsEnd(s, i + 1) ELSE i

\* /@@ -(\d+)(?:,\d+)? \+(\d+)(?:,(\d+))? @@/ tried at position i
HeaderAt(s, i) ==
    LET p1 == i + 4
        e1 == DigitsEnd(s, p1)
        q1 == OptCount(s, e1)
        p2 == q1 + 2
        e2 == DigitsEnd(s, p2)
        q2 == OptCount(s, e2)
        ok == /\ i + 3 <= Len(s)
              /\ SubSeq(s, i, i + 3) = <<"@", "@", " ", "-">>
              /\ e1 > p1
              /\ At(s, q1) = " " /\ At(s, q1 + 1) = "+"
              /\ e2 > p2
              /\ At(s, q2) = " " /\ At(s, q2 + 1) = "@" /\ At(s, q2 + 2) = "@"
    IN  IF ok
        THEN [ok |-> TRUE, old |-> parseInt(s, p1, e1), new |-> parseInt(s, p2, e2)]
        ELSE [ok |-> FALSE, old |-> 0, new |-> 0]

\* RegExp.exec: the leftmost position where the pattern matches
HeaderMatch(s) ==
    LET hits == {i \in 1..Len(s) : HeaderAt(s, i).ok}
    IN  IF hits = {}
        THEN [ok |-> FALSE, old |-> 0, new |-> 0]
        ELSE HeaderAt(s, CHOOSE i \in hits : \A j \in hits : i <= j)

(***************************************************************************)
(* The branch of the for loop a line takes                                 *)
(***************************************************************************)
\* variant: a "\" line falls into the context branch
LineKindNoBackslashTest(line) ==
    IF StartsWith(line, <<"@", "@">>) THEN "header"
    ELSE IF StartsWith(line, <<"+">>) /\ ~StartsWith(line, <<"+", "+", "+">>)
         THEN "added"
    ELSE IF StartsWith(line, <<"-">>) /\ ~StartsWith(line, <<"-", "-", "-">>)
         THEN "removed"
    ELSE "context"

LineKind(line) ==
    IF StartsWith(line, <<"@", "@">>) THEN "header"
    ELSE IF StartsWith(line, <<"+">>) /\ ~StartsWith(line, <<"+", "+", "+">>)
         THEN "added"
    ELSE IF StartsWith(line, <<"-">>) /\ ~StartsWith(line, <<"-", "-", "-">>)
         THEN "removed"
    ELSE IF ~StartsWith(line, <<"\\">>) THEN "context"
    ELSE "noop"

(***************************************************************************)
(* Hunks                                                                   *)
(***************************************************************************)
createEmptyHunk ==
    [removedLines |-> <<>>, addedLines |-> <<>>, startNewLine |-> 0, startOldLine |-> 0]

\* Array.prototype.filter with l => !isBlankLine(l.content)
RECURSIVE NonBlank(_)
NonBlank(ls) ==
    IF ls = <<>> THEN <<>>
    ELSE IF isBlankLine(Head(ls).content) THEN NonBlank(Tail(ls))
    ELSE <<Head(ls)>> \o NonBlank(Tail(ls))

determineHunkTypeNoBlankRule(removed, added, allAdded) ==
    IF Len(removed) = 0 /\ Len(added) > 0 THEN ADD_ONLY
    ELSE IF Len(removed) > 0 /\ Len(added) = 0 THEN DELETE_ONLY
    ELSE IF Len(removed) > 0 /\ Len(added) > 0 THEN REPLACE
    ELSE DELETE_ONLY

determineHunkType(removed, added, allAdded) ==
    IF Len(removed) = 0 /\ Len(added) > 0 THEN ADD_ONLY
    ELSE IF Len(removed) > 0 /\ Len(added) = 0 THEN DELETE_ONLY
    ELSE IF Len(removed) > 0 /\ Len(added) > 0 THEN REPLACE
    ELSE IF Len(allAdded) > 0 THEN ADD_ONLY ELSE DELETE_ONLY

\* the hunkType finalizeHunk computes for a non-empty buffer
HunkTypeOfRaw(hunk) ==
    determineHunkType(hunk.removedLines, NonBlank(hunk.addedLines), hunk.addedLines)
HunkTypeOf(hunk) ==
    determineHunkType(NonBlank(hunk.removedLines), NonBlank(hunk.addedLines),
                      hunk.addedLines)

\* the records finalizeHunk pushes for the buffer
EmittedPerLineType(hunk) ==
    [i \in 1..Len(hunk.addedLines) |->
        LET one == <<hunk.addedLines[i]>>
            type == determineHunkType(NonBlank(hunk.removedLines), NonBlank(one), one)
        IN  [line |-> hunk.addedLines[i].content,
             number |-> hunk.addedLines[i].lineNum,
             hunkType |-> type,
             removedLines |-> IF type = REPLACE THEN hunk.removedLines ELSE <<>>]]

EmittedNonBlankRemoved(hunk) ==
    [i \in 1..Len(hunk.addedLines) |->
        [line |-> hunk.addedLines[i].content,
         number |-> hunk.addedLines[i].lineNum,
         hunkType |-> HunkTypeOf(hunk),
         removedLines |-> IF HunkTypeOf(hunk) = REPLACE
                          THEN NonBlank(hunk.removedLines) ELSE <<>>]]

Emitted(hunk) ==
    [i \in 1..Len(hunk.addedLines) |->
        [line |-> hunk.addedLines[i].content,
         number |-> hunk.addedLines[i].lineNum,
         hunkType |-> HunkTypeOf(hunk),
         removedLines |-> IF HunkTypeOf(hunk) = REPLACE
                          THEN hunk.removedLines ELSE <<>>]]

\* finalizeHunk: the result array after the call (the returned hunk is
\* always createEmptyHunk)
finalizeHunk(hunk, out) ==
    IF Len(hunk.addedLines) = 0 /\ Len(hunk.removedLines) = 0
    THEN out
    ELSE out \o Emitted(hunk)

(***************************************************************************)
(* JavaScript values: strings, null, undefined, numbers (a ratio, or NaN), *)
(* Date objects (a time in milliseconds, or an invalid date), objects      *)
(***************************************************************************)
Null == [t |-> "null"]
Undefined == [t |-> "undefined"]
Str(s) == [t |-> "string", v |-> s]
Num(n) == [t |-> "number", nan |-> FALSE, num |-> n, den |-> 1]
NaN == [t |-> "number", nan |-> TRUE, num |-> 0, den |-> 1]
DateOf(ms) == [t |-> "date", valid |-> TRUE, ms |-> ms]
InvalidDate == [t |-> "date", valid |-> FALSE, ms |-> 0]
Arr(items) == [t |-> "array", items |-> items]
Author(name) == [t |-> "object", name |-> name]
Commit(oid, committedDate, author) ==
    [t |-> "object", oid |-> oid, committedDate |-> committedDate, author |-> author]
\* {} : every property reads undefined
EmptyObject == Commit(Undefined, Undefined, Undefined)

\* ToBoolean
Truthy(v) ==
    CASE v.t = "null" -> FALSE
      [] v.t = "undefined" -> FALSE
      [] v.t = "string" -> v.v # ""
      [] v.t = "number" -> ~v.nan /\ v.num # 0
      [] OTHER -> TRUE

\* a || b
Or(a, b) == IF Truthy(a) THEN a ELSE b

\* ToNumber of the operands of <= and >=: null converts to 0, undefined to
\* NaN (strings and objects are not drawn for numeric arguments)
ToNumber(v) ==
    CASE v.t = "number" -> v
      [] v.t = "null" -> Num(0)
      [] OTHER -> NaN

\* a <= b; a comparison with NaN is false
LessThan(a, b) ==
    LET x == ToNumber(a)
        y == ToNumber(b)
    IN  ~x.nan /\ ~y.nan /\ x.num * y.den < y.num * x.den
LessOrEqual(a, b) ==
    LET x == ToNumber(a)
        y == ToNumber(b)
    IN  ~x.nan /\ ~y.nan /\ x.num * y.den <= y.num * x.den
\* a >= b
GreaterOrEqual(a, b) == LessOrEqual(b, a)

\* new Date(dateStr) for the date strings of the model; any other string is
\* an invalid date
DateParseLenient(str) ==
    CASE str = "1970-01-25T00:00:00.000Z" -> DateOf(24 * MILLISECONDS_PER_DAY)
      [] OTHER -> DateOf(0)
DateParse(str) ==
    CASE str = "1970-01-01T00:00:00.000Z" -> DateOf(0)
      [] str = "1970-01-25T00:00:00.000Z" -> DateOf(24 * MILLISECONDS_PER_DAY)
      [] OTHER -> InvalidDate

\* extractCommitInfo
extractCommitInfoParseAlways(range) ==
    LET commit == Or(range.commit, EmptyObject)
        author == Or(IF commit.author.t \in {"null", "undefined"}
                     THEN Undefined ELSE commit.author.name, Null)
        commitOid == Or(commit.oid, Null)
        dateStr == commit.committedDate
        date == IF dateStr.t = "string" THEN DateParse(dateStr.v) ELSE InvalidDate
    IN  [author |-> author, commitOid |-> commitOid, date |-> date]
extractCommitInfo(range) ==
    LET commit == Or(range.commit, EmptyObject)
        author == Or(IF commit.author.t \in {"null", "undefined"}
                     THEN Undefined ELSE commit.author.name, Null)
        commitOid == Or(commit.oid, Null)
        dateStr == Or(commit.committedDate, Null)
        date == IF Truthy(dateStr) THEN DateParse(dateStr.v) ELSE Null
    IN  [author |-> author, commitOid |-> commitOid, date |-> date]

\* calculateDeltaDays: (currentDate - previousDate) / MILLISECONDS_PER_DAY
calculateDeltaDaysClamped(currentDate, previousDate) ==
    IF currentDate.valid /\ previousDate.valid
    THEN [t |-> "number", nan |-> FALSE,
          num |-> IF currentDate.ms < previousDate.ms
                  THEN 0 ELSE currentDate.ms - previousDate.ms,
          den |-> MILLISECONDS_PER_DAY]
    ELSE NaN
calculateDeltaDays(currentDate, previousDate) ==
    IF currentDate.valid /\ previousDate.valid
    THEN [t |-> "number", nan |-> FALSE,
          num |-> currentDate.ms - previousDate.ms, den |-> MILLISECONDS_PER_DAY]
    ELSE NaN

\* r => lineNum >= r.startingLine && lineNum <= r.endingLine
Covers(r, lineNum) ==
    /\ GreaterOrEqual(Num(lineNum), r.startingLine)
    /\ LessOrEqual(Num(lineNum), r.endingLine)

\* reading a property of null or undefined raises a TypeError
Throw == [t |-> "throw"]
IsNullish(v) == v.t \in {"null", "undefined"}

\* Array.prototype.find: the first element that satisfies the test, or
\* undefined; the test raises on an element that is null or undefined
RECURSIVE FindLast(_, _)
FindLast(ranges, lineNum) ==
    IF ranges = <<>> THEN Undefined
    ELSE IF IsNullish(ranges[Len(ranges)]) THEN Throw
    ELSE IF Covers(ranges[Len(ranges)], lineNum) THEN ranges[Len(ranges)]
    ELSE FindLast(SubSeq(ranges, 1, Len(ranges) - 1), lineNum)
RECURSIVE Find(_, _)
Find(ranges, lineNum) ==
    IF ranges = <<>> THEN Undefined
    ELSE IF IsNullish(Head(ranges)) THEN Throw
    ELSE IF Covers(Head(ranges), lineNum) THEN Head(ranges)
    ELSE Find(Tail(ranges), lineNum)

NoEvidence ==
    [category |-> NEW_WORK, prevAuthor |-> Null, prevCommit |-> Null, deltaDays |-> Null]

\* the category of a line whose matched range has a date
CategoryStrict(prevAuthor, currentAuthor, deltaDays, maxDeltaDays) ==
    IF prevAuthor = currentAuthor
    THEN IF LessThan(deltaDays, maxDeltaDays) THEN CHURN ELSE REWORK
    ELSE HELP_OTHERS
CategoryNonNegative(prevAuthor, currentAuthor, deltaDays, maxDeltaDays) ==
    IF prevAuthor = currentAuthor
    THEN IF LessOrEqual(deltaDays, maxDeltaDays) THEN CHURN ELSE REWORK
    ELSE IF LessThan(deltaDays, Num(0)) THEN NEW_WORK ELSE HELP_OTHERS
Category(prevAuthor, currentAuthor, deltaDays, maxDeltaDays) ==
    IF prevAuthor = currentAuthor
    THEN IF LessOrEqual(deltaDays, maxDeltaDays) THEN CHURN ELSE REWORK
    ELSE HELP_OTHERS

\* the call does not return: a TypeError propagates to the caller
Thrown ==
    [category |-> "TypeError", prevAuthor |-> Null, prevCommit |-> Null, deltaDays |-> Null]

\* if (!Array.isArray(blameRanges)) blameRanges = []
ArrayOrEmptyNoGuard(blame) == IF blame.t = "array" THEN blame.items ELSE <<Null>>
ArrayOrEmpty(blame) == IF blame.t = "array" THEN blame.items ELSE <<>>

\* classifyLine: the body of if (hunkType === HUNK_TYPES.REPLACE)
classifyReplace(lineNum, ranges, currentAuthor, currentDate, maxDeltaDays) ==
    LET range == Find(ranges, lineNum)
    IN  IF range = Throw THEN Thrown
        ELSE IF ~Truthy(range) THEN NoEvidence
        ELSE LET info == extractCommitInfo(range)
             IN  IF ~Truthy(info.date)
                 THEN [category |-> NEW_WORK, prevAuthor |-> info.author,
                       prevCommit |-> info.commitOid, deltaDays |-> Null]
                 ELSE LET deltaDays == calculateDeltaDays(currentDate, info.date)
                      IN  [category |-> Category(info.author, currentAuthor,
                                                 deltaDays, maxDeltaDays),
                           prevAuthor |-> info.author,
                           prevCommit |-> info.commitOid,
                           deltaDays |-> deltaDays]

classifyLineOnce(lineNum, hunkType, blame, currentAuthor, currentDate, maxDeltaDays) ==
    IF hunkType = REPLACE /\ calls = <<>>
    THEN classifyReplace(lineNum, ArrayOrEmpty(blame), currentAuthor, currentDate,
                         maxDeltaDays)
    ELSE NoEvidence

classifyLineBlameFirst(lineNum, hunkType, blame, currentAuthor, currentDate, maxDeltaDays) ==
    IF hunkType \in {ADD_ONLY, REPLACE}
    THEN classifyReplace(lineNum, ArrayOrEmpty(blame), currentAuthor, currentDate,
                         maxDeltaDays)
    ELSE NoEvidence

classifyLineElseReplace(lineNum, hunkType, blame, currentAuthor, currentDate, maxDeltaDays) ==
    IF hunkType = ADD_ONLY THEN NoEvidence
    ELSE classifyReplace(lineNum, ArrayOrEmpty(blame), currentAuthor, currentDate,
                         maxDeltaDays)

classifyLine(lineNum, hunkType, blame, currentAuthor, currentDate, maxDeltaDays) ==
    IF hunkType = ADD_ONLY THEN NoEvidence
    ELSE IF hunkType = REPLACE
    THEN classifyReplace(lineNum, ArrayOrEmpty(blame), currentAuthor, currentDate,
                         maxDeltaDays)
    ELSE NoEvidence

(***************************************************************************)
(* getFileBlameFiltered.  The outcome of the GraphQL query is "error" (the *)
(* client rejects), "missing" (no res.repository.object) or "object" with  *)
(* a __typename and the value of obj.blame?.ranges                         *)
(***************************************************************************)
\* ranges.filter(r => !(r.commit && prShas.has(r.commit.oid)))
FilterRangesByCommitObject(ranges, shas) == ranges
FilterRanges(ranges, shas) ==
    LET Keep(r) == ~(/\ Truthy(r.commit)
                     /\ r.commit.oid.t = "string"
                     /\ r.commit.oid.v \in shas)
    IN  SelectSeq(ranges, Keep)

EmptyBlame == [ranges |-> <<>>, filteredCount |-> 0]

\* variant: the __typename of the object is not looked at
getFileBlameFilteredNoTypeCheck(res, shas) ==
    IF res.outcome = "error" THEN EmptyBlame
    ELSE IF res.outcome = "missing" THEN EmptyBlame
    ELSE LET ranges == Or(res.ranges, Arr(<<>>)).items
             filtered == FilterRanges(ranges, shas)
         IN  [ranges |-> filtered, filteredCount |-> Len(ranges) - Len(filtered)]

getFileBlameFiltered(res, shas) ==
    IF res.outcome = "error" THEN EmptyBlame
    ELSE IF res.outcome = "missing" THEN EmptyBlame
    ELSE IF res.typename # "Commit" THEN EmptyBlame
    ELSE LET ranges == Or(res.ranges, Arr(<<>>)).items
             filtered == FilterRanges(ranges, shas)
         IN  [ranges |-> filtered, filteredCount |-> Len(ranges) - Len(filtered)]

(***************************************************************************)
(* parsePatch as a function of the whole patch: the for loop over the      *)
(* lines, then the last finalizeHunk                                       *)
(***************************************************************************)
ParseStart ==
    [addedLines |-> <<>>, newLineNum |-> 0, oldLineNum |-> 0,
     currentHunk |-> createEmptyHunk]

\* one iteration of the for loop
ParseLine(st, line) ==
    LET kind == LineKind(line)
        match == HeaderMatch(line)
        buffered == Len(st.currentHunk.addedLines) > 0
                       \/ Len(st.currentHunk.removedLines) > 0
    IN  CASE kind = "header" ->
               [addedLines |-> finalizeHunk(st.currentHunk, st.addedLines),
                newLineNum |-> IF match.ok THEN match.new ELSE 0,
                oldLineNum |-> IF match.ok THEN match.old ELSE 0,
                currentHunk |-> IF match.ok
                                THEN [createEmptyHunk EXCEPT
                                         !.startOldLine = match.old,
                                         !.startNewLine = match.new]
                                ELSE createEmptyHunk]
          [] kind = "added" ->
               [st EXCEPT !.currentHunk.addedLines =
                              Append(@, [content |-> Substring1(line),
                                         lineNum |-> st.newLineNum]),
                          !.newLineNum = @ + 1]
          [] kind = "removed" ->
               [st EXCEPT !.currentHunk.removedLines =
                              Append(@, [content |-> Substring1(line),
                                         lineNum |-> st.oldLineNum]),
                          !.oldLineNum = @ + 1]
          [] kind = "context" ->
               [addedLines |-> IF buffered
                               THEN finalizeHunk(st.currentHunk, st.addedLines)
                               ELSE st.addedLines,
                newLineNum |-> st.newLineNum + 1,
                oldLineNum |-> st.oldLineNum + 1,
                currentHunk |-> IF buffered THEN createEmptyHunk ELSE st.currentHunk]
          [] OTHER -> st

RECURSIVE ParseLoop(_, _)
\* the state before a line is bound as a value, so it is computed once
ParseLoop(ls, n) ==
    IF n = 0 THEN ParseStart
    ELSE CHOOSE next \in {ParseLine(st, ls[n]) : st \in {ParseLoop(ls, n - 1)}} : TRUE

parsePatch(ls) ==
    CHOOSE added \in {finalizeHunk(st.currentHunk, st.addedLines) :
                         st \in {ParseLoop(ls, Len(ls))}} : TRUE

(***************************************************************************)
(* analyzeFile: the detail records, the counters and the classifyLine      *)
(* calls of one file                                                       *)
(***************************************************************************)
LastCommit(author, date, sha) ==
    [t |-> "object", author |-> author, date |-> date, sha |-> sha]
\* lastCommit?.author, lastCommit?.date
AuthorOfLast(lastCommit) == IF IsNullish(lastCommit) THEN Undefined ELSE lastCommit.author
DateOfLast(lastCommit) == IF IsNullish(lastCommit) THEN Undefined ELSE lastCommit.date

NoAnalysis == [details |-> <<>>, calls |-> <<>>, blame |-> EmptyBlame]

\* the result of parsePatch is bound as a value: the patch is parsed once
analyzeFile(file, res, shas, lastCommit, prAuthor, prDate, maxDeltaDays) ==
    IF ~Truthy(file.patch) THEN NoAnalysis
    ELSE CHOOSE a \in {
         LET blame == getFileBlameFiltered(res, shas)
             currentAuthor == Or(AuthorOfLast(lastCommit), Or(prAuthor, Str("unknown")))
             currentDate == Or(DateOfLast(lastCommit), prDate)
             Args(k) == [lineNum |-> added[k].number, hunkType |-> added[k].hunkType,
                         blame |-> Arr(blame.ranges), currentAuthor |-> currentAuthor,
                         currentDate |-> currentDate, maxDeltaDays |-> maxDeltaDays]
             Result(k) == classifyLine(added[k].number, added[k].hunkType,
                                       Arr(blame.ranges), currentAuthor, currentDate,
                                       maxDeltaDays)
         IN  [details |->
                 [k \in 1..Len(added) |->
                     [archivo |-> file.filename,
                      linea |-> added[k].number,
                      contenido |-> added[k].line,
                      tipoHunk |-> added[k].hunkType,
                      categoria |-> Result(k).category,
                      autorActual |-> currentAuthor,
                      autorPrevio |-> Result(k).prevAuthor,
                      commitPrevio |-> Result(k).prevCommit,
                      deltaDias |-> Result(k).deltaDays]],
              calls |-> [k \in 1..Len(added) |-> [call |-> Args(k), result |-> Result(k)]],
              blame |-> blame] :
                 added \in {parsePatch(file.patch.lines)}} : TRUE

\* summary[category] = (summary[category] || 0) + count, for the counts of a file
CountOf(details, c) == Cardinality({k \in 1..Len(details) : details[k].categoria = c})
\* variant: summary[category] = count, the earlier files forgotten
AccumulateOverwrites(sum, details) ==
    [c \in DOMAIN sum |-> IF CountOf(details, c) > 0 THEN CountOf(details, c) ELSE sum[c]]
Accumulate(sum, details) == [c \in DOMAIN sum |-> sum[c] + CountOf(details, c)]

(***************************************************************************)
(* The blame data and the arguments classifyLine is called with            *)
(***************************************************************************)
DateEarly == "1970-01-01T00:00:00.000Z"
DateLate == "1970-01-25T00:00:00.000Z"

Commits ==
    { Commit(Str("c1"), Str(DateEarly), Author(Str("alice"))),
      Commit(Str("c2"), Str(DateLate), Author(Str("alice"))),
      Commit(Str("c3"), Str(DateEarly), Author(Str("bob"))),
      Commit(Str("c4"), Null, Author(Str("alice"))),
      Commit(Str("c5"), Str(DateEarly), Null) }

Ranges ==
    { [t |-> "object", startingLine |-> Num(a), endingLine |-> Num(b), commit |-> c] :
        a \in 1..MaxLine, b \in 1..MaxLine, c \in Commits }

WellFormedRanges == {r \in Ranges : r.startingLine.num <= r.endingLine.num}

\* the range lists a blame query returns: none, one or two ranges
BlameLists ==
    {<<>>} \cup {<<r>> : r \in WellFormedRanges}
           \cup {<<r1, r2>> : r1 \in WellFormedRanges, r2 \in WellFormedRanges}

CurrentAuthors == {Str("alice"), Str("bob")}
CurrentDates ==
    { DateOf(DEFAULT_MAX_DELTA_DAYS * MILLISECONDS_PER_DAY - 1),
      DateOf(DEFAULT_MAX_DELTA_DAYS * MILLISECONDS_PER_DAY),
      DateOf(DEFAULT_MAX_DELTA_DAYS * MILLISECONDS_PER_DAY + 1) }
Thresholds == {Num(0), Num(DEFAULT_MAX_DELTA_DAYS)}

RangeOf(a, b, c) == [t |-> "object", startingLine |-> a, endingLine |-> b, commit |-> c]
CommitC1 == Commit(Str("c1"), Str(DateEarly), Author(Str("alice")))
CommitC3 == Commit(Str("c3"), Str(DateEarly), Author(Str("bob")))

\* The outcomes of the blame query and the SHAs of the PR
RawCommits ==
    { CommitC1, Commit(Str("c2"), Str(DateLate), Author(Str("alice"))), CommitC3, Null }
RawRanges == {RangeOf(Num(a), Num(MaxLine), c) : a \in {1, MaxLine}, c \in RawCommits}
RECURSIVE ListsUpTo(_, _)
ListsUpTo(S, n) ==
    IF n = 0 THEN {<<>>}
    ELSE LET shorter == ListsUpTo(S, n - 1)
         IN  shorter \cup {Append(l, x) : l \in {m \in shorter : Len(m) = n - 1}, x \in S}
RawLists == ListsUpTo(RawRanges, MaxRanges)
BlameResponses ==
    { [outcome |-> "error", typename |-> "", ranges |-> Null],
      [outcome |-> "missing", typename |-> "", ranges |-> Null],
      [outcome |-> "object", typename |-> "Tree", ranges |-> Null],
      [outcome |-> "object", typename |-> "Commit", ranges |-> Null] }
        \cup {[outcome |-> "object", typename |-> "Commit", ranges |-> Arr(l)] : l \in RawLists}
PrShaSets == SUBSET {"c1", "c3"}

\* Arguments of classifyLine beyond those analyzeFile produces: commits with
\* absent, null, empty or unparseable fields, ranges without a commit or
\* without bounds, null entries, and blame inputs that are not arrays
DateInvalid == "invalid-date"
EdgeOids == {Str("c1"), Null}
EdgeDates ==
    {Str(DateEarly), Str(DateLate), Str(DateInvalid), Str(""), Null, Undefined}
EdgeAuthorObjects ==
    {Author(Str("alice")), Author(Str("")), Author(Null), Author(Undefined),
     Null, Undefined}
EdgeCommits ==
    {Commit(o, d, a) : o \in EdgeOids, d \in EdgeDates, a \in EdgeAuthorObjects}
        \cup {Null, Undefined}
EdgeCommitRanges == {RangeOf(Num(1), Num(MaxLine), c) : c \in EdgeCommits}
EdgeBoundRanges ==
    {RangeOf(a, b, CommitC1) :
        a \in {Null, Undefined, Num(1), Num(MaxLine)},
        b \in {Null, Undefined, Num(1), Num(MaxLine)}}
EdgeLists ==
    {<<>>, <<Null>>, <<Undefined>>}
        \cup {<<r>> : r \in EdgeCommitRanges \cup EdgeBoundRanges}
        \cup {<<r, RangeOf(Num(1), Num(MaxLine), CommitC3)>> : r \in EdgeBoundRanges}
        \cup {<<RangeOf(Num(1), Num(MaxLine), CommitC3), e>> : e \in {Null, Undefined}}
        \cup {<<e, RangeOf(Num(1), Num(MaxLine), CommitC3)>> : e \in {Null, Undefined}}
EdgeBlames == {Arr(l) : l \in EdgeLists} \cup {Null, Undefined, Str("ranges")}
\* hunkType is only compared with ===; null and undefined are written as
\* tokens that equal no hunk type
HunkNull == "<null>"
HunkUndefined == "<undefined>"
EdgeHunkTypes == HUNK_TYPES \cup {"unknown", HunkNull, HunkUndefined}
EdgeAuthors == {Str("alice"), Str("Alice"), Str(" alice"), Str(""), Null, Undefined}
EdgeThresholds == Thresholds \cup {Undefined, Null}

(***************************************************************************)
(* The patches fed to parsePatch                                           *)
(***************************************************************************)
Header == <<"@", "@", " ", "-", "2", ",", "1", " ", "+", "1", ",", "2", " ", "@", "@", " ", "x">>
HeaderBad == <<"@", "@", " ", "x">>

PatchLines ==
    { Header, HeaderBad,
      <<"+", "a">>, <<"+", " ">>, <<"+", "+", "+", "a">>,
      <<"-", "a">>, <<"-">>,
      <<" ", "a">>,
      <<"\\", " ", "N">> }

\* a second choice of lines, with the empty line that split("\n") gives for
\* two consecutive newlines or a newline at the end, and a removed line
\* whose content starts with "--"
PatchLinesMore ==
    { Header,
      <<"+", "a">>,
      <<"-", "a">>, <<"-">>, <<"-", "-", "-", "a">>,
      <<>>, <<" ", "a">>,
      <<"\\", " ", "N">> }

(***************************************************************************)
(* The files of a pull request and what is fetched for them                *)
(***************************************************************************)
\* file.patch: the text, with the lines split("\n") gives
PatchOf(ls) == [t |-> "string", v |-> IF ls = <<<<>>>> THEN "" ELSE "text", lines |-> ls]
RunPatches ==
    { PatchOf(<<Header, <<"+", "a">>>>),
      PatchOf(<<Header, <<"-", "a">>, <<"+", "a">>, <<"+", " ">>>>),
      PatchOf(<<Header, <<"-", "a">>>>) }
NoPatches == {Undefined, PatchOf(<<<<>>>>)}
FileNames == <<"a.js", "b.js", "c.js", "d.js">>
RunShas == {"c3"}
RunResponses ==
    { [outcome |-> "error", typename |-> "", ranges |-> Null],
      [outcome |-> "missing", typename |-> "", ranges |-> Null],
      [outcome |-> "object", typename |-> "Tree",
       ranges |-> Arr(<<RangeOf(Num(1), Num(MaxLine), CommitC1)>>)],
      [outcome |-> "object", typename |-> "Commit",
       ranges |-> Arr(<<RangeOf(Num(1), Num(MaxLine), CommitC1)>>)],
      [outcome |-> "object", typename |-> "Commit",
       ranges |-> Arr(<<RangeOf(Num(1), Num(MaxLine), CommitC3),
                        RangeOf(Num(1), Num(MaxLine), CommitC1)>>)] }
RunLastCommits ==
    { Undefined,
      LastCommit(Str("alice"), DateOf(DEFAULT_MAX_DELTA_DAYS * MILLISECONDS_PER_DAY),
                 Str("p1")) }
RunPrAuthor == Str("bob")
RunPrDate == DateOf(DEFAULT_MAX_DELTA_DAYS * MILLISECONDS_PER_DAY + 1)

(***************************************************************************)
(* parsePatch, one iteration of the for loop per step                      *)
(***************************************************************************)
ParseInit ==
    /\ lines = <<>>
    /\ addedLines = <<>>
    /\ newLineNum = 0
    /\ oldLineNum = 0
    /\ currentHunk = createEmptyHunk
    /\ pc = "loop"

MoreInput(line) ==
    /\ pc = "loop"
    /\ Len(lines) < MaxLines
    /\ line \in PatchLines \cup PatchLinesMore
    /\ lines' = Append(lines, line)
    /\ pc' = "loop"

\* line.startsWith("@@")
ReadHeaderZeroBased(line) ==
    /\ MoreInput(line)
    /\ LineKind(line) = "header"
    /\ addedLines' = finalizeHunk(currentHunk, addedLines)
    /\ LET match == HeaderMatch(line)
       IN  IF match.ok
           THEN /\ oldLineNum' = match.old - 1
                /\ newLineNum' = match.new - 1
                /\ currentHunk' = [createEmptyHunk EXCEPT
                                      !.startOldLine = match.old - 1,
                                      !.startNewLine = match.new - 1]
           ELSE /\ oldLineNum' = 0
                /\ newLineNum' = 0
                /\ currentHunk' = createEmptyHunk

ReadHeaderKeepsCounters(line) ==
    /\ MoreInput(line)
    /\ LineKind(line) = "header"
    /\ addedLines' = finalizeHunk(currentHunk, addedLines)
    /\ LET match == HeaderMatch(line)
       IN  IF match.ok
           THEN /\ oldLineNum' = match.old
                /\ newLineNum' = match.new
                /\ currentHunk' = [createEmptyHunk EXCEPT
                                      !.startOldLine = match.old,
                                      !.startNewLine = match.new]
           ELSE /\ UNCHANGED <<oldLineNum, newLineNum>>
                /\ currentHunk' = createEmptyHunk

ReadHeader(line) ==
    /\ MoreInput(line)
    /\ LineKind(line) = "header"
    /\ addedLines' = finalizeHunk(currentHunk, addedLines)
    /\ LET match == HeaderMatch(line)
       IN  IF match.ok
           THEN /\ oldLineNum' = match.old
                /\ newLineNum' = match.new
                /\ currentHunk' = [createEmptyHunk EXCEPT
                                      !.startOldLine = match.old,
                                      !.startNewLine = match.new]
           ELSE /\ oldLineNum' = 0
                /\ newLineNum' = 0
                /\ currentHunk' = createEmptyHunk

\* line.startsWith("+") && !line.startsWith("+++")
ReadAddedNoIncrement(line) ==
    /\ MoreInput(line)
    /\ LineKind(line) = "added"
    /\ currentHunk' = [currentHunk EXCEPT !.addedLines =
          Append(@, [content |-> Substring1(line), lineNum |-> newLineNum])]
    /\ UNCHANGED <<addedLines, newLineNum, oldLineNum>>

ReadAdded(line) ==
    /\ MoreInput(line)
    /\ LineKind(line) = "added"
    /\ currentHunk' = [currentHunk EXCEPT !.addedLines =
          Append(@, [content |-> Substring1(line), lineNum |-> newLineNum])]
    /\ newLineNum' = newLineNum + 1
    /\ UNCHANGED <<addedLines, oldLineNum>>

\* line.startsWith("-") && !line.startsWith("---")
ReadRemoved(line) ==
    /\ MoreInput(line)
    /\ LineKind(line) = "removed"
    /\ currentHunk' = [currentHunk EXCEPT !.removedLines =
          Append(@, [content |-> Substring1(line), lineNum |-> oldLineNum])]
    /\ oldLineNum' = oldLineNum + 1
    /\ UNCHANGED <<addedLines, newLineNum>>

\* !line.startsWith("\\"): context line, or empty line
ReadContext(line) ==
    /\ MoreInput(line)
    /\ LineKind(line) = "context"
    /\ IF Len(currentHunk.addedLines) > 0 \/ Len(currentHunk.removedLines) > 0
       THEN /\ addedLines' = finalizeHunk(currentHunk, addedLines)
            /\ currentHunk' = createEmptyHunk
       ELSE UNCHANGED <<addedLines, currentHunk>>
    /\ newLineNum' = newLineNum + 1
    /\ oldLineNum' = oldLineNum + 1

\* a line that starts with a backslash takes no branch
ReadNoop(line) ==
    /\ MoreInput(line)
    /\ LineKind(line) = "noop"
    /\ UNCHANGED <<addedLines, newLineNum, oldLineNum, currentHunk>>

\* after the loop: the last finalizeHunk, whose returned hunk is dropped
EndOfInput ==
    /\ pc = "loop"
    /\ Len(lines) >= 1
    /\ addedLines' = finalizeHunk(currentHunk, addedLines)
    /\ pc' = "done"
    /\ UNCHANGED <<lines, newLineNum, oldLineNum, currentHunk>>

NoResponse == [outcome |-> "none", typename |-> "", ranges |-> Null]

ClassInit ==
    /\ response = NoResponse
    /\ prShas = {}
    /\ filteredCount = 0
    /\ blameRanges = <<>>
    /\ call = [lineNum |-> 0, hunkType |-> ADD_ONLY, blame |-> Arr(<<>>),
               currentAuthor |-> Null, currentDate |-> InvalidDate,
               maxDeltaDays |-> Undefined]
    /\ result = NoEvidence
    /\ cpc = "start"

\* main: the counters start at 0, no detail record, nothing written
MainInit ==
    /\ analyzed = <<>>
    /\ summary = [c \in CATEGORIES |-> 0]
    /\ allDetails = <<>>
    /\ calls = <<>>
    /\ output = Null
    /\ mpc = "files"

\* before main lists the commits of the PR
WalkFiles == {"a.js", "b.js"}
WalkShas == {"s1", "s2"}
WalkInit ==
    /\ prCommits = <<>>
    /\ walkIndex = 0
    /\ lastCommitByFile = [f \in WalkFiles |-> Undefined]
    /\ commitDetailsCache = [sha \in WalkShas |-> Undefined]
    /\ fetched = <<>>
    /\ wpc = "list"

Init == ParseInit /\ ClassInit /\ MainInit /\ WalkInit

Next ==
    \/ \E line \in PatchLines : ReadHeader(line) /\ UNCHANGED <<classVars, mainVars, walkVars>>
    \/ \E line \in PatchLines : ReadAdded(line) /\ UNCHANGED <<classVars, mainVars, walkVars>>
    \/ \E line \in PatchLines : ReadRemoved(line) /\ UNCHANGED <<classVars, mainVars, walkVars>>
    \/ \E line \in PatchLines : ReadContext(line) /\ UNCHANGED <<classVars, mainVars, walkVars>>
    \/ \E line \in PatchLines : ReadNoop(line) /\ UNCHANGED <<classVars, mainVars, walkVars>>
    \/ EndOfInput /\ UNCHANGED <<classVars, mainVars, walkVars>>

Spec == Init /\ [][Next]_vars

\* parsePatch on the second choice of lines
NextMore ==
    \/ \E line \in PatchLinesMore : ReadHeader(line) /\ UNCHANGED <<classVars, mainVars, walkVars>>
    \/ \E line \in PatchLinesMore : ReadAdded(line) /\ UNCHANGED <<classVars, mainVars, walkVars>>
    \/ \E line \in PatchLinesMore : ReadRemoved(line) /\ UNCHANGED <<classVars, mainVars, walkVars>>
    \/ \E line \in PatchLinesMore : ReadContext(line) /\ UNCHANGED <<classVars, mainVars, walkVars>>
    \/ \E line \in PatchLinesMore : ReadNoop(line) /\ UNCHANGED <<classVars, mainVars, walkVars>>
    \/ EndOfInput /\ UNCHANGED <<classVars, mainVars, walkVars>>

SpecMore == Init /\ [][NextMore]_vars

(***************************************************************************)
(* analyzeFile: the blame ranges of the file are fetched, then             *)
(* classifyLine is called for an added line                                *)
(***************************************************************************)
FetchBlame ==
    /\ cpc = "start"
    /\ blameRanges' \in BlameLists
    /\ cpc' = "blamed"
    /\ UNCHANGED <<response, prShas, filteredCount, call, result>>

ClassifyCall(lineNum, hunkType, currentAuthor, currentDate, maxDeltaDays) ==
    /\ cpc = "blamed"
    /\ call' = [lineNum |-> lineNum, hunkType |-> hunkType, blame |-> Arr(blameRanges),
                currentAuthor |-> currentAuthor, currentDate |-> currentDate,
                maxDeltaDays |-> maxDeltaDays]
    /\ result' = classifyLine(lineNum, hunkType, Arr(blameRanges), currentAuthor,
                              currentDate, maxDeltaDays)
    /\ cpc' = "classified"
    /\ UNCHANGED <<response, prShas, filteredCount, blameRanges>>

NextClassify ==
    \/ FetchBlame /\ UNCHANGED <<parseVars, mainVars, walkVars>>
    \/ \E lineNum \in 1..MaxLine, hunkType \in HUNK_TYPES,
          currentAuthor \in CurrentAuthors, currentDate \in CurrentDates,
          maxDeltaDays \in Thresholds :
              ClassifyCall(lineNum, hunkType, currentAuthor, currentDate, maxDeltaDays)
              /\ UNCHANGED <<parseVars, mainVars, walkVars>>

SpecClassify == Init /\ [][NextClassify]_vars

(***************************************************************************)
(* analyzeFile with the blame query: getFileBlameFiltered, then            *)
(* classifyLine for an added line                                          *)
(***************************************************************************)
FetchBlameFiltered ==
    /\ cpc = "start"
    /\ \E res \in BlameResponses, shas \in PrShaSets :
          /\ response' = res
          /\ prShas' = shas
          /\ blameRanges' = getFileBlameFiltered(res, shas).ranges
          /\ filteredCount' = getFileBlameFiltered(res, shas).filteredCount
    /\ cpc' = "blamed"
    /\ UNCHANGED <<call, result>>

NextBlame ==
    \/ FetchBlameFiltered /\ UNCHANGED <<parseVars, mainVars, walkVars>>
    \/ \E lineNum \in 1..MaxLine, hunkType \in HUNK_TYPES,
          currentAuthor \in CurrentAuthors :
              ClassifyCall(lineNum, hunkType, currentAuthor,
                           DateOf(DEFAULT_MAX_DELTA_DAYS * MILLISECONDS_PER_DAY),
                           Num(DEFAULT_MAX_DELTA_DAYS))
              /\ UNCHANGED <<parseVars, mainVars, walkVars>>

SpecBlame == Init /\ [][NextBlame]_vars

(***************************************************************************)
(* main: the loop over the files of the pull request, then saveResults     *)
(***************************************************************************)
AnalyzeNextFile ==
    /\ mpc = "files"
    /\ Len(analyzed) < MaxFiles
    /\ Len(analyzed) < Len(FileNames)
    /\ \E patch \in RunPatches \cup NoPatches, res \in RunResponses \cup {NoResponse},
          lastCommit \in RunLastCommits :
          \* the blame query is made only for a file that has a patch
          /\ Truthy(patch) <=> res # NoResponse
          /\ ~Truthy(patch) => lastCommit = Undefined
          /\ LET file == [filename |-> FileNames[Len(analyzed) + 1], patch |-> patch]
                 a == analyzeFile(file, res, RunShas, lastCommit, RunPrAuthor,
                                  RunPrDate, Num(DEFAULT_MAX_DELTA_DAYS))
             IN  /\ analyzed' = Append(analyzed,
                                       [file |-> file, response |-> res,
                                        lastCommit |-> lastCommit, blame |-> a.blame])
                 /\ summary' = Accumulate(summary, a.details)
                 /\ allDetails' = allDetails \o a.details
                 /\ calls' = calls \o a.calls
    /\ UNCHANGED <<output, mpc>>

\* saveResults: a failure to create the directory is rethrown and main
\* rejects; a failure to write the file is only logged
SaveResults ==
    /\ mpc = "files"
    /\ \E fs \in {"written", "writeFailed", "mkdirFailed"} :
          /\ output' = IF fs = "written"
                       THEN [t |-> "object", resumen |-> summary, detalles |-> allDetails]
                       ELSE Null
          /\ mpc' = IF fs = "mkdirFailed" THEN "failed" ELSE "done"
    /\ UNCHANGED <<analyzed, summary, allDetails, calls>>

NextRun ==
    \/ AnalyzeNextFile /\ UNCHANGED <<parseVars, classVars, walkVars>>
    \/ SaveResults /\ UNCHANGED <<parseVars, classVars, walkVars>>

SpecRun == Init /\ [][NextRun]_vars

(***************************************************************************)
(* classifyLine called on its own, with any arguments                      *)
(***************************************************************************)
ClassifyDirect ==
    /\ cpc = "start"
    /\ \E lineNum \in 0..MaxLine, hunkType \in EdgeHunkTypes, blame \in EdgeBlames,
          currentAuthor \in EdgeAuthors, currentDate \in CurrentDates,
          maxDeltaDays \in EdgeThresholds :
           /\ call' = [lineNum |-> lineNum, hunkType |-> hunkType, blame |-> blame,
                       currentAuthor |-> currentAuthor, currentDate |-> currentDate,
                       maxDeltaDays |-> maxDeltaDays]
           /\ result' = classifyLine(lineNum, hunkType, blame, currentAuthor,
                                     currentDate, maxDeltaDays)
    /\ cpc' = "classified"
    /\ UNCHANGED <<response, prShas, filteredCount, blameRanges>>

NextDirect == ClassifyDirect /\ UNCHANGED <<parseVars, mainVars, walkVars>>

SpecDirect == Init /\ [][NextDirect]_vars

(***************************************************************************)
(* buildLastCommitByFile, one iteration of the for loop per step           *)
(***************************************************************************)
\* an entry of prCommits: sha and author?.login
CommitSummary(sha, login) == [sha |-> sha, login |-> login]
\* the data of repos.getCommit: commit?.author?.name, commit?.author?.date
\* and files
CommitDetails(name, date, files) ==
    [t |-> "object", name |-> name, date |-> date, files |-> files]
\* the outcome of octokit.repos.getCommit
Resolved(data) == [ok |-> TRUE, data |-> data]
Rejected == [ok |-> FALSE, data |-> Null]
\* new Date() at the time of the walk
WalkNow == DateOf(2 * MILLISECONDS_PER_DAY)

Summaries == {CommitSummary(sha, login) : sha \in WalkShas, login \in {Str("carol"), Undefined}}
CommitLists == UNION {[1..n -> Summaries] : n \in 0..MaxCommits}
DetailsOfCommits ==
    {CommitDetails(Str("alice"), Str(DateLate), files) :
        files \in {Undefined, Arr(<<"a.js">>), Arr(<<"a.js", "b.js">>)}}
    \cup {CommitDetails(Undefined, Undefined, files) :
        files \in {Undefined, Arr(<<"a.js">>), Arr(<<"a.js", "b.js">>)}}
GetCommitOutcomes == {Rejected} \cup {Resolved(d) : d \in DetailsOfCommits}

\* variant: the error of the request is not caught
fetchCommitDetailsRethrows(resp) == IF resp.ok THEN resp.data ELSE Throw
fetchCommitDetails(resp) == IF resp.ok THEN resp.data ELSE Null

extractCommitAuthorAndDate(commitDetails, commitSummary, fallbackAuthor) ==
    [author |-> Or(Or(Or(commitDetails.name, commitSummary.login), fallbackAuthor),
                   Str("unknown")),
     date |-> IF Truthy(commitDetails.date)
              THEN DateParse(commitDetails.date.v)
              ELSE WalkNow]

\* for (const file of files) if (!lastCommitByFile.has(file.filename)) set
RECURSIVE SetFiles(_, _, _)
SetFiles(map, files, entry) ==
    IF files = <<>> THEN map
    ELSE SetFiles(IF map[Head(files)] = Undefined
                  THEN [map EXCEPT ![Head(files)] = entry]
                  ELSE map,
                  Tail(files), entry)

\* main lists the commits of the PR and calls buildLastCommitByFile
ListCommits ==
    /\ wpc = "list"
    /\ \E commits \in CommitLists :
          /\ prCommits' = commits
          /\ walkIndex' = Len(commits)
          /\ fetched' = [p \in 1..Len(commits) |-> Undefined]
    /\ wpc' = "walk"
    /\ UNCHANGED <<lastCommitByFile, commitDetailsCache>>

\* one iteration of for (let i = prCommits.length - 1; i >= 0; i--)
WalkCommit ==
    /\ wpc = "walk"
    /\ walkIndex >= 1
    /\ LET commitSummary == prCommits[walkIndex]
           sha == commitSummary.sha
           cached == commitDetailsCache[sha]
       IN  \E resp \in IF Truthy(cached) THEN {Resolved(cached)} ELSE GetCommitOutcomes :
             LET commitDetails == IF Truthy(cached) THEN cached
                                  ELSE fetchCommitDetails(resp)
             IN  IF commitDetails = Throw
                 THEN /\ wpc' = "failed"
                      /\ fetched' = [fetched EXCEPT ![walkIndex] = Null]
                      /\ UNCHANGED <<walkIndex, lastCommitByFile, commitDetailsCache>>
                 ELSE IF ~Truthy(commitDetails)
                 THEN /\ walkIndex' = walkIndex - 1
                      /\ fetched' = [fetched EXCEPT ![walkIndex] = Null]
                      /\ UNCHANGED <<wpc, lastCommitByFile, commitDetailsCache>>
                 ELSE LET info == extractCommitAuthorAndDate(commitDetails, commitSummary,
                                                             RunPrAuthor)
                          files == Or(commitDetails.files, Arr(<<>>))
                      IN  /\ commitDetailsCache' =
                                [commitDetailsCache EXCEPT ![sha] = commitDetails]
                          /\ lastCommitByFile' =
                                SetFiles(lastCommitByFile, files.items,
                                         LastCommit(info.author, info.date, Str(sha)))
                          /\ walkIndex' = walkIndex - 1
                          /\ fetched' = [fetched EXCEPT ![walkIndex] = commitDetails]
                          /\ UNCHANGED wpc
    /\ UNCHANGED prCommits

\* the loop is over: return lastCommitByFile
WalkReturn ==
    /\ wpc = "walk"
    /\ walkIndex = 0
    /\ wpc' = "done"
    /\ UNCHANGED <<prCommits, walkIndex, lastCommitByFile, commitDetailsCache, fetched>>

NextWalk ==
    \/ ListCommits /\ UNCHANGED <<parseVars, classVars, mainVars>>
    \/ WalkCommit /\ UNCHANGED <<parseVars, classVars, mainVars>>
    \/ WalkReturn /\ UNCHANGED <<parseVars, classVars, mainVars>>

SpecWalk == Init /\ [][NextWalk]_vars

(***************************************************************************)
(* The input as the claims read it: predicates on the raw characters of a  *)
(* line and positions in the consumed input                                *)
(***************************************************************************)
FirstCharIs(line, c) == Len(line) >= 1 /\ line[1] = c
IsAtAt(line) == Len(line) >= 2 /\ line[1] = "@" /\ line[2] = "@"
TripleOf(line, c) == Len(line) >= 3 /\ line[1] = c /\ line[2] = c /\ line[3] = c
IsPlusLine(line) == FirstCharIs(line, "+") /\ ~TripleOf(line, "+")
IsMinusLine(line) == FirstCharIs(line, "-") /\ ~TripleOf(line, "-")
\* a line that neither starts a hunk header nor is taken as context
StaysInBuffer(line) ==
    IsPlusLine(line) \/ IsMinusLine(line) \/ FirstCharIs(line, "\\")
AllWhitespace(content) == {i \in 1..Len(content) : content[i] \notin Whitespace} = {}

\* positions, in input order, of the lines whose first character is "+"
RECURSIVE PlusPos(_, _)
PlusPos(ls, i) ==
    IF i > Len(ls) THEN <<>>
    ELSE (IF FirstCharIs(ls[i], "+") THEN <<i>> ELSE <<>>) \o PlusPos(ls, i + 1)

\* positions, in input order, of the "+" lines that do not start with "+++"
RECURSIVE AddedPos(_, _)
AddedPos(ls, i) ==
    IF i > Len(ls) THEN <<>>
    ELSE (IF IsPlusLine(ls[i]) THEN <<i>> ELSE <<>>) \o AddedPos(ls, i + 1)

\* no line starting with "@@" at the positions a..b
NoHeaderIn(a, b) == \A k \in a..b : ~IsAtAt(lines[k])
\* only "+", "-" and "\" lines at the positions a..b
OneRun(a, b) == \A k \in a..b : StaysInBuffer(lines[k])
\* the number of "@@" lines before position p
HeadersBefore(p) == Cardinality({k \in 1..(p - 1) : IsAtAt(lines[k])})
\* the last "@@" line before position p (0 when there is none)
LastHeaderBefore(p) ==
    LET hs == {k \in 1..(p - 1) : IsAtAt(lines[k])}
    IN  IF hs = {} THEN 0 ELSE CHOOSE k \in hs : \A j \in hs : j <= k
\* the maximal run of "+", "-" and "\" lines around position p
RunStart(p) == CHOOSE a \in 1..p : OneRun(a, p) /\ (a = 1 \/ ~StaysInBuffer(lines[a - 1]))
RunEnd(p) ==
    CHOOSE b \in p..Len(lines) :
        OneRun(p, b) /\ (b = Len(lines) \/ ~StaysInBuffer(lines[b + 1]))
\* the contents of the "-" lines at the positions a..b, in input order
RECURSIVE RemovedIn(_, _)
RemovedIn(a, b) ==
    IF a > b THEN <<>>
    ELSE (IF IsMinusLine(lines[a]) THEN <<Tail(lines[a])>> ELSE <<>>) \o RemovedIn(a + 1, b)

Parsed == pc = "done"
Records == 1..Len(addedLines)
\* the k-th record comes from the k-th "+" line taken as added
SrcKnown == Len(AddedPos(lines, 1)) = Len(addedLines)
Src(k) == AddedPos(lines, 1)[k]

(***************************************************************************)
(* C1: the numbers of the records are strictly increasing in output order, *)
(* for every diff text.                                                    *)
(***************************************************************************)
C1_StrictlyIncreasing ==
    \A i, j \in Records : i < j => addedLines[i].number < addedLines[j].number

\* C1 as amended: the numbers are strictly increasing among the records
\* whose source lines have no "@@" line between them.
C1_IncreasingBetweenHeaders ==
    Parsed =>
        /\ SrcKnown
        /\ \A i, j \in Records :
              (i < j /\ NoHeaderIn(Src(i), Src(j)))
                  => addedLines[i].number < addedLines[j].number

C1_Witness ==
    /\ Parsed /\ SrcKnown
    /\ \E k \in 1..Len(lines) : IsAtAt(lines[k])
    /\ \E i, j \in Records :
          /\ i < j /\ NoHeaderIn(Src(i), Src(j))
          /\ addedLines[j].number > addedLines[i].number + 1

(***************************************************************************)
(* C2: every input line whose first character is "+" gives exactly one     *)
(* record, in input order, whose content is the line without that          *)
(* character; the result is as long as the number of such lines.           *)
(***************************************************************************)
C2_EveryPlusLineEmitted ==
    Parsed =>
        LET plus == PlusPos(lines, 1)
        IN  /\ Len(addedLines) = Len(plus)
            /\ \A k \in 1..Len(plus) : addedLines[k].line = Tail(lines[plus[k]])

(***************************************************************************)
(* C3: the hunkType of a finalized buffer is replace iff it holds a        *)
(* non-blank removed and a non-blank added line, add-only iff it holds no  *)
(* non-blank removed line and at least one added line, delete-only         *)
(* otherwise; the records pushed carry that type.                          *)
(***************************************************************************)
HasNonBlank(ls) == \E i \in 1..Len(ls) : ~AllWhitespace(ls[i].content)
ClaimedHunkType(hunk) ==
    IF HasNonBlank(hunk.removedLines) /\ HasNonBlank(hunk.addedLines) THEN REPLACE
    ELSE IF ~HasNonBlank(hunk.removedLines) /\ Len(hunk.addedLines) >= 1 THEN ADD_ONLY
    ELSE DELETE_ONLY

\* the step pushes the buffer's records
Pushes == Len(addedLines') > Len(addedLines)
Pushed == (Len(addedLines) + 1)..Len(addedLines')

C3_HunkTypeRule ==
    [][/\ HunkTypeOf(currentHunk) = ClaimedHunkType(currentHunk)
       /\ Pushes =>
             /\ Len(addedLines') = Len(addedLines) + Len(currentHunk.addedLines)
             /\ \A k \in Pushed : addedLines'[k].hunkType = ClaimedHunkType(currentHunk)]_vars

C3_Witness ==
    /\ Parsed
    /\ \E i, j \in Records :
          addedLines[i].hunkType = REPLACE /\ addedLines[j].hunkType = ADD_ONLY

(***************************************************************************)
(* C4: a hunk that removes only blank lines and adds at least one          *)
(* non-blank line is add-only: its records carry add-only and an empty     *)
(* removedLines, and classifyLine returns New Work for them whatever the   *)
(* blame data.                                                             *)
(***************************************************************************)
OnlyBlankRemoved(hunk) ==
    /\ Len(hunk.removedLines) >= 1
    /\ \A i \in 1..Len(hunk.removedLines) : AllWhitespace(hunk.removedLines[i].content)
    /\ HasNonBlank(hunk.addedLines)

C4_BlankRemovalIsAddOnly ==
    [][(Pushes /\ OnlyBlankRemoved(currentHunk)) =>
          \A k \in Pushed :
              /\ addedLines'[k].hunkType = ADD_ONLY
              /\ addedLines'[k].removedLines = <<>>
              /\ \A r \in WellFormedRanges, a \in CurrentAuthors,
                    d \in CurrentDates, m \in Thresholds :
                    classifyLine(addedLines'[k].number, addedLines'[k].hunkType,
                                 Arr(<<r>>), a, d, m).category = NEW_WORK]_vars

C4_Witness ==
    /\ Parsed /\ SrcKnown
    /\ \E k \in Records :
          /\ Src(k) >= 2
          /\ lines[Src(k) - 1] = <<"-">>
          /\ ~AllWhitespace(addedLines[k].line)
          /\ addedLines[k].hunkType = ADD_ONLY
          /\ addedLines[k].number \in 1..MaxLine

(***************************************************************************)
(* C5: no record returned by parsePatch has hunkType delete-only.          *)
(***************************************************************************)
C5_NoDeleteOnlyRecord ==
    \A k \in Records : addedLines[k].hunkType # DELETE_ONLY

(***************************************************************************)
(* C6: two records that come from the same hunk, the block of lines from   *)
(* one "@@" header up to the next header or the end of the input, carry    *)
(* the same hunkType.                                                      *)
(***************************************************************************)
C6_SameTypePerHeaderBlock ==
    Parsed =>
        (SrcKnown =>
            \A i, j \in Records :
                (/\ HeadersBefore(Src(i)) >= 1
                 /\ HeadersBefore(Src(i)) = HeadersBefore(Src(j))
                 /\ HeaderMatch(lines[LastHeaderBefore(Src(i))]).ok)
                    => addedLines[i].hunkType = addedLines[j].hunkType)

\* C6 as amended: two records whose source lines are separated only by
\* "+", "-" and "\" lines (no "@@" line, no context line) carry the same
\* hunkType.
C6_SameTypePerRun ==
    Parsed =>
        /\ SrcKnown
        /\ \A i, j \in Records :
              (i < j /\ OneRun(Src(i), Src(j)))
                  => addedLines[i].hunkType = addedLines[j].hunkType

C6_Witness ==
    /\ Parsed /\ SrcKnown
    /\ \E i, j \in Records :
          /\ i < j /\ OneRun(Src(i), Src(j)) /\ Src(j) > Src(i) + 1
          /\ addedLines[i].hunkType = REPLACE
          /\ AllWhitespace(addedLines[j].line)

(***************************************************************************)
(* C7: every number returned by parsePatch is greater than 0, for every    *)
(* diff text.                                                              *)
(***************************************************************************)
C7_NumbersPositive == \A k \in Records : addedLines[k].number > 0

\* C7 as amended: every number is at least 0, and greater than 0 when the
\* last "@@" line before the added line is a recognized header whose
\* new-file start is at least 1.
C7_PositiveAfterRecognizedHeader ==
    Parsed =>
        /\ SrcKnown
        /\ \A k \in Records :
              /\ addedLines[k].number >= 0
              /\ LET h == LastHeaderBefore(Src(k))
                 IN  (h > 0 /\ HeaderMatch(lines[h]).ok /\ HeaderMatch(lines[h]).new >= 1)
                        => addedLines[k].number > 0

C7_Witness ==
    /\ Parsed /\ SrcKnown
    /\ \E k \in Records :
          LET h == LastHeaderBefore(Src(k))
          IN  h > 0 /\ HeaderMatch(lines[h]).ok /\ addedLines[k].number = 1
    /\ \E k \in Records : addedLines[k].number = 0

(***************************************************************************)
(* C8: removedLines of a record is non-empty iff its hunkType is replace,  *)
(* and then it is the complete list of the removed lines of the buffer, in *)
(* input order, blank ones included.                                       *)
(***************************************************************************)
C8_RemovedLinesIffReplace ==
    /\ \A k \in Records :
          (addedLines[k].removedLines # <<>>) <=> (addedLines[k].hunkType = REPLACE)
    /\ Parsed =>
          /\ SrcKnown
          /\ \A k \in Records :
                addedLines[k].hunkType = REPLACE =>
                    [i \in 1..Len(addedLines[k].removedLines) |->
                        addedLines[k].removedLines[i].content]
                      = RemovedIn(RunStart(Src(k)), RunEnd(Src(k)))

C8_Witness ==
    /\ Parsed
    /\ \E k \in Records :
          /\ addedLines[k].hunkType = REPLACE
          /\ Len(addedLines[k].removedLines) >= 2
          /\ \E i \in 1..Len(addedLines[k].removedLines) :
                AllWhitespace(addedLines[k].removedLines[i].content)
    /\ \E k \in Records : addedLines[k].hunkType = ADD_ONLY
(***************************************************************************)
(* The classifyLine call as the claims read it                             *)
(***************************************************************************)
Classified == cpc = "classified"
\* the blame ranges of the call; an input that is not a list has none
CallRanges == IF call.blame.t = "array" THEN call.blame.items ELSE <<>>
\* every entry is a range with numeric bounds
NumericBounds ==
    \A i \in 1..Len(CallRanges) :
        /\ CallRanges[i].t = "object"
        /\ CallRanges[i].startingLine.t = "number"
        /\ CallRanges[i].endingLine.t = "number"
\* the ranges whose bounds contain the line number, both ends included
Hits ==
    {i \in 1..Len(CallRanges) :
        /\ CallRanges[i].startingLine.num <= call.lineNum
        /\ call.lineNum <= CallRanges[i].endingLine.num}
FirstHit == CHOOSE i \in Hits : \A j \in Hits : i <= j
Matched == CallRanges[FirstHit].commit
\* a value that is present: not null, not undefined, not the empty string
Present(v) == v.t \notin {"null", "undefined"} /\ v # Str("")
\* the author name and the commit id a commit carries, null when it has none
NameOf(commit) ==
    IF commit.t = "object" /\ commit.author.t = "object" /\ Present(commit.author.name)
    THEN commit.author.name ELSE Null
OidOf(commit) == IF commit.t = "object" /\ Present(commit.oid) THEN commit.oid ELSE Null
\* the committedDate of a commit, undefined when there is no commit object
DateStrOf(commit) == IF commit.t = "object" THEN commit.committedDate ELSE Undefined
HasValidDate(commit) ==
    DateStrOf(commit).t = "string" /\ DateStrOf(commit).v \in {DateEarly, DateLate}
\* milliseconds since the epoch of the date strings
EpochMs(str) == IF str = DateEarly THEN 0 ELSE 24 * MILLISECONDS_PER_DAY

(***************************************************************************)
(* C9: for a line of a replace hunk the range used is the first, in the    *)
(* order supplied, with startingLine <= number <= endingLine; it supplies  *)
(* previousAuthor and previousCommit; when no range contains the number    *)
(* none is used.                                                           *)
(***************************************************************************)
C9_FirstInclusiveMatch ==
    (Classified /\ call.hunkType = REPLACE) =>
        IF Hits = {} THEN result = NoEvidence
        ELSE /\ result.prevCommit = Matched.oid
             /\ result.prevAuthor = NameOf(Matched)

C9_Witness ==
    /\ Classified /\ call.hunkType = REPLACE
    /\ Len(blameRanges) = 2 /\ Hits = {1, 2}
    /\ blameRanges[1].startingLine.num < blameRanges[1].endingLine.num
    /\ call.lineNum = blameRanges[1].endingLine.num
    /\ call.lineNum = blameRanges[2].startingLine.num
    /\ blameRanges[1].commit.oid # blameRanges[2].commit.oid
    /\ NameOf(blameRanges[1].commit) # NameOf(blameRanges[2].commit)
    /\ result.prevCommit = blameRanges[1].commit.oid

(***************************************************************************)
(* C10: for a replace line whose matched range has a valid date and whose  *)
(* previous author equals the current author, the category is Churn        *)
(* exactly when deltaDays <= threshold and Rework otherwise.               *)
(***************************************************************************)
DeltaMs == call.currentDate.ms - EpochMs(Matched.committedDate.v)

C10_ChurnIffWithinThreshold ==
    (/\ Classified /\ call.hunkType = REPLACE /\ Hits # {}
     /\ HasValidDate(Matched)
     /\ NameOf(Matched) = call.currentAuthor) =>
        /\ result.category =
              IF DeltaMs <= call.maxDeltaDays.num * MILLISECONDS_PER_DAY
              THEN CHURN ELSE REWORK
        /\ result.deltaDays.t = "number" /\ ~result.deltaDays.nan
        /\ result.deltaDays.num = DeltaMs
        /\ result.deltaDays.den = MILLISECONDS_PER_DAY

C10_Witness ==
    /\ Classified /\ call.hunkType = REPLACE /\ Hits # {}
    /\ HasValidDate(Matched)
    /\ NameOf(Matched) = call.currentAuthor
    /\ call.maxDeltaDays = Num(DEFAULT_MAX_DELTA_DAYS)
    /\ DeltaMs = DEFAULT_MAX_DELTA_DAYS * MILLISECONDS_PER_DAY
    /\ result.category = CHURN

(***************************************************************************)
(* C11: for a replace line whose matched range has a date, an author that  *)
(* differs from the current author (exact comparison, no case folding, no  *)
(* trimming; an absent previous author differs from a present current      *)
(* author) gives Help Others for every deltaDays and every threshold.      *)
(***************************************************************************)
C11_DifferentAuthorIsHelpOthers ==
    (/\ Classified /\ call.hunkType = REPLACE
     /\ NumericBounds /\ Hits # {}
     /\ Present(DateStrOf(Matched))
     /\ NameOf(Matched) # call.currentAuthor) =>
        /\ result.category = HELP_OTHERS
        /\ result.prevAuthor = NameOf(Matched)

\* the names differ only in case and deltaDays is negative
C11_Witness ==
    /\ Classified /\ call.hunkType = REPLACE
    /\ NumericBounds /\ Hits # {}
    /\ DateStrOf(Matched) = Str(DateLate)
    /\ NameOf(Matched) = Str("alice") /\ call.currentAuthor = Str("Alice")
    /\ LessThan(result.deltaDays, Num(0))
    /\ result.category = HELP_OTHERS

(***************************************************************************)
(* C12: with hunkType add-only classifyLine returns New Work with          *)
(* prevAuthor, prevCommit and deltaDays absent, for every line number and  *)
(* every blame input, also when a range covers the line.                   *)
(***************************************************************************)
C12_AddOnlyIsNewWork ==
    (Classified /\ call.hunkType = ADD_ONLY) => result = NoEvidence

C12_Witness ==
    /\ Classified /\ call.hunkType = ADD_ONLY
    /\ NumericBounds /\ Hits # {}
    /\ HasValidDate(Matched) /\ NameOf(Matched) = call.currentAuthor
    /\ result = NoEvidence

(***************************************************************************)
(* C13: with hunkType replace, when no range contains the line number the  *)
(* result is New Work with no evidence; a blame input that is null,        *)
(* undefined or not a list has no ranges and gives that same result.       *)
(***************************************************************************)
C13_NoRangeIsNewWork ==
    (/\ Classified /\ call.hunkType = REPLACE
     /\ NumericBounds /\ Hits = {}) => result = NoEvidence

C13_Witness ==
    /\ Classified /\ call.hunkType = REPLACE
    /\ call.blame = Undefined
    /\ result = NoEvidence

(***************************************************************************)
(* C14: for a replace line whose matched range has no committedDate        *)
(* (absent, null, empty, or no commit object) the result is New Work with  *)
(* deltaDays absent, and prevAuthor and prevCommit are the author name and *)
(* the commit id of the range when it has them.                            *)
(***************************************************************************)
C14_NoDateIsNewWorkWithEvidence ==
    (/\ Classified /\ call.hunkType = REPLACE
     /\ NumericBounds /\ Hits # {}
     /\ ~Present(DateStrOf(Matched))) =>
        result = [category |-> NEW_WORK, prevAuthor |-> NameOf(Matched),
                  prevCommit |-> OidOf(Matched), deltaDays |-> Null]

C14_Witness ==
    /\ Classified /\ call.hunkType = REPLACE
    /\ NumericBounds /\ Hits # {}
    /\ DateStrOf(Matched) = Str("")
    /\ result = [category |-> NEW_WORK, prevAuthor |-> Str("alice"),
                 prevCommit |-> Str("c1"), deltaDays |-> Null]

(***************************************************************************)
(* C15: a replace line whose matched range carries a committedDate that is *)
(* present but cannot be parsed is classified New Work, as when the date   *)
(* is missing.                                                             *)
(***************************************************************************)
C15_InvalidDateIsNewWork ==
    (/\ Classified /\ call.hunkType = REPLACE
     /\ NumericBounds /\ Hits # {}
     /\ DateStrOf(Matched) = Str(DateInvalid)) =>
        result.category = NEW_WORK

(***************************************************************************)
(* C16: classifyLine returns for every line number, hunkType, list of      *)
(* ranges with absent or null fields, author, date and threshold; the      *)
(* category is one of the four; a hunkType other than add-only and replace *)
(* gives New Work with no evidence.                                        *)
(***************************************************************************)
EntriesAreObjects == \A i \in 1..Len(CallRanges) : CallRanges[i].t = "object"

C16_TotalAndFourCategories ==
    (Classified /\ EntriesAreObjects) =>
        /\ result.category \in CATEGORIES
        /\ call.hunkType \notin {ADD_ONLY, REPLACE} => result = NoEvidence

\* an undefined hunkType with a dated range over the line
C16_Witness ==
    /\ Classified /\ call.hunkType = HunkUndefined
    /\ NumericBounds /\ Hits # {}
    /\ HasValidDate(Matched)
    /\ result = NoEvidence

(***************************************************************************)
(* C17: with maxDeltaDays undefined the threshold is the default of 21     *)
(* days: a same-author replace line is Churn when deltaDays <= 21 and      *)
(* Rework when deltaDays > 21.                                             *)
(***************************************************************************)
C17_DefaultThreshold ==
    (/\ Classified /\ call.hunkType = REPLACE
     /\ call.maxDeltaDays = Undefined
     /\ NumericBounds /\ Hits # {}
     /\ HasValidDate(Matched)
     /\ Present(call.currentAuthor)
     /\ NameOf(Matched) = call.currentAuthor) =>
        result.category =
            IF DeltaMs <= DEFAULT_MAX_DELTA_DAYS * MILLISECONDS_PER_DAY
            THEN CHURN ELSE REWORK

(***************************************************************************)
(* C18: every range getFileBlameFiltered returns has a commit id outside   *)
(* the SHAs of the PR, the retained ranges keep their relative order,      *)
(* filteredCount is the number of ranges removed, and no classification    *)
(* result has a prevCommit that belongs to the PR.                         *)
(***************************************************************************)
\* the ranges the blame query delivered
Raw == IF response.ranges.t = "array" THEN response.ranges.items ELSE <<>>
InPr(commit) == OidOf(commit).t = "string" /\ OidOf(commit).v \in prShas
\* b is a with some elements left out, the others in their order
IsSubsequence(b, a) ==
    \E f \in [1..Len(b) -> 1..Len(a)] :
        /\ \A i \in 1..Len(b) : b[i] = a[f[i]]
        /\ \A i, j \in 1..Len(b) : i < j => f[i] < f[j]

C18_PrRangesNeverClassified ==
    (cpc \in {"blamed", "classified"}) =>
        /\ \A i \in 1..Len(blameRanges) : ~InPr(blameRanges[i].commit)
        /\ IsSubsequence(blameRanges, Raw)
        /\ filteredCount = Len(Raw) - Len(blameRanges)
        /\ filteredCount = Cardinality({i \in 1..Len(Raw) : InPr(Raw[i].commit)})
        /\ Classified => ~(result.prevCommit.t = "string" /\ result.prevCommit.v \in prShas)

\* the first range over the line belongs to the PR; the next one is used
C18_Witness ==
    /\ Classified /\ call.hunkType = REPLACE
    /\ Len(Raw) = 3 /\ Len(blameRanges) = 2 /\ filteredCount = 1
    /\ InPr(Raw[1].commit)
    /\ Raw[1].startingLine.num <= call.lineNum
    /\ blameRanges = <<Raw[2], Raw[3]>>
    /\ Raw[2] # Raw[3]
    /\ result.prevCommit = OidOf(Raw[2].commit)
    /\ result.prevCommit # Null

(***************************************************************************)
(* C19: the number of records tagged add-only equals the number of "+"     *)
(* lines that lie in hunks whose count of non-blank "-" lines is zero.  A  *)
(* hunk is read here as a maximal run of "+", "-" and "\" lines.           *)
(***************************************************************************)
HunkLine(line) ==
    FirstCharIs(line, "+") \/ FirstCharIs(line, "-") \/ FirstCharIs(line, "\\")
\* the positions in the same hunk as position p
HunkOf(p) ==
    {q \in 1..Len(lines) :
        \A k \in (IF p < q THEN p ELSE q)..(IF p < q THEN q ELSE p) : HunkLine(lines[k])}
NonBlankMinus(q) == FirstCharIs(lines[q], "-") /\ ~AllWhitespace(Tail(lines[q]))
PlusInHunksWithoutRemoval ==
    {p \in 1..Len(lines) :
        /\ FirstCharIs(lines[p], "+")
        /\ \A q \in HunkOf(p) : ~NonBlankMinus(q)}
AddOnlyRecords == {k \in Records : addedLines[k].hunkType = ADD_ONLY}

C19_AddOnlyCount ==
    Parsed => Cardinality(AddOnlyRecords) = Cardinality(PlusInHunksWithoutRemoval)

\* the equation on the inputs that have no line starting with "+++"
AddOnlyCountWithoutTriplePlus ==
    (Parsed /\ \A p \in 1..Len(lines) : ~TripleOf(lines[p], "+")) =>
        Cardinality(AddOnlyRecords) = Cardinality(PlusInHunksWithoutRemoval)

(***************************************************************************)
(* C20: a line that starts with "@@" and does not match the header pattern *)
(* raises no error: the buffered hunk is finalized and its records are     *)
(* emitted, both counters become zero and the loop goes on; the added      *)
(* lines after it are returned, numbered from zero.                        *)
(***************************************************************************)
BadHeaderStep ==
    /\ pc = "loop"
    /\ Len(lines') = Len(lines) + 1
    /\ IsAtAt(lines'[Len(lines')])
    /\ ~HeaderMatch(lines'[Len(lines')]).ok
\* the lines strictly between a and b that advance the new-file counter
AdvancingBetween(a, b) ==
    {j \in (a + 1)..(b - 1) :
        ~IsMinusLine(lines[j]) /\ ~FirstCharIs(lines[j], "\\")}

C20_BadHeaderResetsAndContinues ==
    /\ [][BadHeaderStep =>
            /\ pc' = "loop"
            /\ Len(addedLines') = Len(addedLines) + Len(currentHunk.addedLines)
            /\ SubSeq(addedLines', 1, Len(addedLines)) = addedLines
            /\ \A i \in 1..Len(currentHunk.addedLines) :
                  /\ addedLines'[Len(addedLines) + i].line = currentHunk.addedLines[i].content
                  /\ addedLines'[Len(addedLines) + i].number = currentHunk.addedLines[i].lineNum
            /\ newLineNum' = 0 /\ oldLineNum' = 0
            /\ currentHunk' = createEmptyHunk]_vars
    /\ [](Parsed =>
            /\ SrcKnown
            /\ \A k \in Records :
                  LET h == LastHeaderBefore(Src(k))
                  IN  (h > 0 /\ ~HeaderMatch(lines[h]).ok) =>
                         addedLines[k].number = Cardinality(AdvancingBetween(h, Src(k))))

\* an added line, the unrecognized header, an added line numbered zero
C20_Witness ==
    /\ Parsed
    /\ Len(lines) >= 3
    /\ IsPlusLine(lines[1]) /\ lines[2] = HeaderBad /\ IsPlusLine(lines[3])
    /\ Len(addedLines) >= 2
    /\ addedLines[1].line = Tail(lines[1])
    /\ addedLines[2].line = Tail(lines[3])
    /\ addedLines[2].number = 0

(***************************************************************************)
(* C21: deltaDays is signed and not clamped: when the date of the matched  *)
(* range is later than the current date the returned deltaDays is the      *)
(* negative difference in days, and with the same author and a threshold   *)
(* >= 0 the category is Churn.                                             *)
(***************************************************************************)
PreviousIsLater ==
    /\ Classified /\ call.hunkType = REPLACE
    /\ NumericBounds /\ Hits # {}
    /\ HasValidDate(Matched)
    /\ EpochMs(Matched.committedDate.v) > call.currentDate.ms

C21_NegativeDeltaIsChurn ==
    PreviousIsLater =>
        /\ result.deltaDays.t = "number" /\ ~result.deltaDays.nan
        /\ result.deltaDays.num = DeltaMs /\ DeltaMs < 0
        /\ result.deltaDays.den = MILLISECONDS_PER_DAY
        /\ (/\ NameOf(Matched) = call.currentAuthor
            /\ call.maxDeltaDays.t = "number"
            /\ ~call.maxDeltaDays.nan /\ call.maxDeltaDays.num >= 0) =>
               result.category = CHURN

C21_Witness ==
    /\ PreviousIsLater
    /\ call.currentAuthor = Str("alice") /\ NameOf(Matched) = Str("alice")
    /\ call.maxDeltaDays = Num(0)
    /\ LessThan(result.deltaDays, Num(0))
    /\ result.category = CHURN

ParsePatchIsTheLoop == Parsed => addedLines = parsePatch(lines)

(***************************************************************************)
(* C23: after a recognized header "@@ -a[,b] +c[,d] @@" the number of an   *)
(* added line is c plus the count of context and added lines between the   *)
(* header and the line; removed lines advance only the old-file counter    *)
(* and do not change the number of a later added line.                     *)
(***************************************************************************)
\* a line that starts with none of "+", "-", "\" and "@@"
IsContextLine(line) ==
    /\ ~FirstCharIs(line, "+") /\ ~FirstCharIs(line, "-")
    /\ ~FirstCharIs(line, "\\") /\ ~IsAtAt(line)
\* the lines strictly between the positions a and b that satisfy Test
CountBetween(a, b, Test(_)) == Cardinality({j \in (a + 1)..(b - 1) : Test(lines[j])})
AdvancesNew(line) == IsContextLine(line) \/ FirstCharIs(line, "+")
\* the step reads a removed line
RemovedStep ==
    /\ pc = "loop"
    /\ Len(lines') = Len(lines) + 1
    /\ FirstCharIs(lines'[Len(lines')], "-")
RecognizedAt(h) == h > 0 /\ HeaderMatch(lines[h]).ok

C23_NumberCountsContextAndAdded ==
    /\ [](Parsed =>
            \A k \in Records :
                LET h == LastHeaderBefore(Src(k))
                IN  RecognizedAt(h) =>
                       addedLines[k].number =
                           HeaderMatch(lines[h]).new + CountBetween(h, Src(k), AdvancesNew))
    /\ [](LET h == LastHeaderBefore(Len(lines) + 1)
          IN  (pc = "loop" /\ RecognizedAt(h)) =>
                 newLineNum =
                     HeaderMatch(lines[h]).new + CountBetween(h, Len(lines) + 1, AdvancesNew))
    /\ [][RemovedStep =>
            /\ oldLineNum' = oldLineNum + 1
            /\ newLineNum' = newLineNum
            /\ addedLines' = addedLines]_vars

(***************************************************************************)
(* C24: with a committedDate that is present but cannot be parsed the      *)
(* missing-date path is not taken: deltaDays is not-a-number, not absent;  *)
(* the same author gives Rework for every threshold, another author gives  *)
(* Help Others.                                                            *)
(***************************************************************************)
MatchedDateUnparseable ==
    /\ Classified /\ call.hunkType = REPLACE
    /\ NumericBounds /\ Hits # {}
    /\ DateStrOf(Matched) = Str(DateInvalid)

BufferNonEmpty(hunk) == Len(hunk.addedLines) > 0 \/ Len(hunk.removedLines) > 0
\* the step reads a line / the step is the end of the input
ReadsLine == pc = "loop" /\ Len(lines') = Len(lines) + 1
LineRead == lines'[Len(lines')]
EndsInput == pc = "loop" /\ pc' = "done"
FinalizingEvent ==
    \/ ReadsLine /\ IsAtAt(LineRead)
    \/ ReadsLine /\ IsContextLine(LineRead)
    \/ EndsInput
\* the step empties the buffer, or closes the result at the end of the input
Finalized == (ReadsLine /\ ~BufferNonEmpty(currentHunk')) \/ EndsInput
\* the type of the run of "+", "-" and "\" lines around position p
NonBlankPlus(q) == FirstCharIs(lines[q], "+") /\ ~AllWhitespace(Tail(lines[q]))
RunType(p) ==
    IF (\E q \in HunkOf(p) : NonBlankMinus(q)) /\ (\E q \in HunkOf(p) : NonBlankPlus(q))
    THEN REPLACE
    ELSE IF ~(\E q \in HunkOf(p) : NonBlankMinus(q)) THEN ADD_ONLY
    ELSE DELETE_ONLY
FinalizationRule ==
    BufferNonEmpty(currentHunk) =>
        /\ Finalized <=> FinalizingEvent
        /\ Finalized =>
              /\ Len(addedLines') = Len(addedLines) + Len(currentHunk.addedLines)
              /\ SubSeq(addedLines', 1, Len(addedLines)) = addedLines
        /\ ~Finalized => addedLines' = addedLines
TypeByRun ==
    Parsed =>
        /\ Len(addedLines) = Len(PlusPos(lines, 1))
        /\ \A k \in Records : addedLines[k].hunkType = RunType(PlusPos(lines, 1)[k])

C25_FinalizedByThreeEvents == [][FinalizationRule]_vars /\ []TypeByRun

\* the statement on the patches without a line starting with "+++" or "---"
NoTripleIn(ls) == \A p \in 1..Len(ls) : ~TripleOf(ls[p], "+") /\ ~TripleOf(ls[p], "-")
FinalizedByThreeEventsWithoutTriples ==
    /\ [][NoTripleIn(lines') => FinalizationRule]_vars
    /\ [](NoTripleIn(lines) => TypeByRun)

(***************************************************************************)
(* C26: a line starting with "\" changes nothing: both counters and the    *)
(* buffer stay as they are and the buffer is not finalized, so the result  *)
(* of the parse is the result for the input with these lines deleted.      *)
(***************************************************************************)
IsBackslashLine(line) == FirstCharIs(line, "\\")
WithoutBackslashLines(ls) == SelectSeq(ls, LAMBDA l : ~IsBackslashLine(l))
BackslashStep == ReadsLine /\ IsBackslashLine(LineRead)
C26_BackslashLineIsNoop ==
    /\ [][BackslashStep =>
             UNCHANGED <<addedLines, newLineNum, oldLineNum, currentHunk>>]_vars
    /\ [](Parsed => addedLines = parsePatch(WithoutBackslashLines(lines)))
\* a "\" line between a removed and an added line of one hunk, the added
\* line emitted with the removed line in its record
C26_Witness ==
    /\ Parsed
    /\ \E p \in 2..(Len(lines) - 1) :
          /\ IsBackslashLine(lines[p])
          /\ IsMinusLine(lines[p - 1])
          /\ IsPlusLine(lines[p + 1])
    /\ \E k \in Records :
          addedLines[k].hunkType = REPLACE /\ Len(addedLines[k].removedLines) > 0

(***************************************************************************)
(* C27: for each file, buildLastCommitByFile records the author, date and  *)
(* sha of the newest commit of the PR (the last position of the            *)
(* oldest-to-newest list) that lists the file and whose details were       *)
(* fetched; an entry is never overwritten by an older commit, and a commit *)
(* whose details could not be fetched is skipped and the walk goes on.     *)
(***************************************************************************)
\* the positions walked so far
Walked == (walkIndex + 1)..Len(prCommits)
FilesOf(details) ==
    IF details.t = "object" /\ details.files.t = "array"
    THEN {details.files.items[j] : j \in 1..Len(details.files.items)}
    ELSE {}
ListedAt(f) == {p \in Walked : f \in FilesOf(fetched[p])}
Newest(positions) == CHOOSE p \in positions : \A q \in positions : q <= p
NewestWins ==
    wpc \in {"walk", "done"} =>
        \A f \in WalkFiles :
            IF ListedAt(f) = {}
            THEN lastCommitByFile[f] = Undefined
            ELSE LET p == Newest(ListedAt(f))
                     info == extractCommitAuthorAndDate(fetched[p], prCommits[p],
                                                        RunPrAuthor)
                 IN  lastCommitByFile[f] =
                         LastCommit(info.author, info.date, Str(prCommits[p].sha))
NeverOverwritten ==
    \A f \in WalkFiles :
        lastCommitByFile[f] # Undefined => lastCommitByFile'[f] = lastCommitByFile[f]
FetchFailedStep ==
    wpc = "walk" /\ walkIndex >= 1 /\ fetched'[walkIndex] = Null
FailureSkipped ==
    FetchFailedStep =>
        /\ wpc' = "walk"
        /\ walkIndex' = walkIndex - 1
        /\ lastCommitByFile' = lastCommitByFile
C27_NewestFetchedCommitWins ==
    /\ [](NewestWins /\ wpc # "failed")
    /\ [][NeverOverwritten /\ FailureSkipped]_vars
\* the newest commit could not be fetched, the two older ones both list
\* a.js under different shas, and the walk has returned
C27_Witness ==
    /\ wpc = "done"
    /\ Len(prCommits) = 3
    /\ fetched[3] = Null
    /\ "a.js" \in FilesOf(fetched[2]) /\ "b.js" \notin FilesOf(fetched[2])
    /\ "b.js" \in FilesOf(fetched[1])
    /\ prCommits[1].sha # prCommits[2].sha
    /\ lastCommitByFile["a.js"].sha = Str(prCommits[2].sha)
    /\ lastCommitByFile["b.js"].sha = Str(prCommits[1].sha)

(***************************************************************************)
(* C28: a failed blame query for a file (an error, no object, or an object *)
(* that is not a Commit) does not abort the run: getFileBlameFiltered      *)
(* returns no ranges and filteredCount 0, every added line of the file is  *)
(* New Work with no evidence, the files after it are still analyzed and    *)
(* the results are still saved.                                            *)
(***************************************************************************)
BlameFailed(res) ==
    \/ res.outcome \in {"error", "missing"}
    \/ res.outcome = "object" /\ res.typename # "Commit"
\* the files analyzed so far whose blame query failed
FailedFiles == {i \in 1..Len(analyzed) : BlameFailed(analyzed[i].response)}
DetailsOf(filename) == SelectSeq(allDetails, LAMBDA d : d.archivo = filename)
AddedIn(file) == IF Truthy(file.patch) THEN parsePatch(file.patch.lines) ELSE <<>>
FailedBlameIsNewWork ==
    \A i \in FailedFiles :
        LET details == DetailsOf(analyzed[i].file.filename)
        IN  /\ analyzed[i].blame.ranges = <<>>
            /\ analyzed[i].blame.filteredCount = 0
            /\ Len(details) = Len(AddedIn(analyzed[i].file))
            /\ \A k \in 1..Len(details) :
                  /\ details[k].categoria = NEW_WORK
                  /\ details[k].autorPrevio = Null
                  /\ details[k].commitPrevio = Null
                  /\ details[k].deltaDias = Null
\* the step that analyzes a file whose blame query fails
FailedBlameStep ==
    /\ Len(analyzed') = Len(analyzed) + 1
    /\ BlameFailed(analyzed'[Len(analyzed')].response)
\* what is written holds the records of every analyzed file
SavedHoldsAll ==
    output # Null => output.detalles = allDetails /\ output.resumen = summary
C28_FailedBlameDoesNotAbort ==
    /\ [](FailedBlameIsNewWork /\ SavedHoldsAll)
    /\ [][FailedBlameStep => mpc = "files" /\ mpc' = "files"]_vars
\* the blame query of the first file failed, the second file was analyzed
\* with blame evidence, and both are in the written output
C28_Witness ==
    /\ mpc = "done" /\ output # Null
    /\ Len(analyzed) = 2
    /\ 1 \in FailedFiles /\ 2 \notin FailedFiles
    /\ Len(DetailsOf(analyzed[1].file.filename)) >= 1
    /\ \E k \in 1..Len(output.detalles) :
          output.detalles[k].archivo = analyzed[2].file.filename
          /\ output.detalles[k].categoria = CHURN
    /\ \E k \in 1..Len(output.detalles) :
          output.detalles[k].archivo = analyzed[1].file.filename
          /\ output.detalles[k].categoria = NEW_WORK

(***************************************************************************)
(* C29: the saved output has exactly one detail record per AddedLine that  *)
(* parsePatch returns for the files with a patch, in file order and then   *)
(* parse order; the four counters of the summary sum to the number of      *)
(* detail records; a file without a patch adds no record and no count.     *)
(***************************************************************************)
\* what identifies the added line of a record
KeyOfAdded(filename, added) ==
    [archivo |-> filename, linea |-> added.number, contenido |-> added.line,
     tipoHunk |-> added.hunkType]
KeyOfDetail(d) ==
    [archivo |-> d.archivo, linea |-> d.linea, contenido |-> d.contenido,
     tipoHunk |-> d.tipoHunk]
\* the added lines of the first n analyzed files, file by file
RECURSIVE ExpectedKeys(_)
ExpectedKeys(n) ==
    IF n = 0 THEN <<>>
    ELSE LET added == AddedIn(analyzed[n].file)
         IN  ExpectedKeys(n - 1) \o
             [k \in 1..Len(added) |-> KeyOfAdded(analyzed[n].file.filename, added[k])]
HasPatch(i) == Truthy(analyzed[i].file.patch)
C29_OneRecordPerAddedLine ==
    output # Null =>
        /\ [k \in 1..Len(output.detalles) |-> KeyOfDetail(output.detalles[k])]
               = ExpectedKeys(Len(analyzed))
        /\ output.resumen[CHURN] + output.resumen[REWORK] + output.resumen[NEW_WORK]
               + output.resumen[HELP_OTHERS] = Len(output.detalles)
        /\ \A c \in CATEGORIES : output.resumen[c] = CountOf(output.detalles, c)
        /\ \A i \in 1..Len(analyzed) :
              ~HasPatch(i) => DetailsOf(analyzed[i].file.filename) = <<>>
\* two files with added lines saved, the same category counted in both
C29_Witness ==
    /\ output # Null
    /\ Len(analyzed) = 2
    /\ HasPatch(1) /\ HasPatch(2)
    /\ Len(AddedIn(analyzed[1].file)) = 2 /\ Len(AddedIn(analyzed[2].file)) >= 1
    /\ output.detalles[1].archivo = analyzed[1].file.filename
    /\ output.detalles[3].archivo = analyzed[2].file.filename
    /\ output.detalles[1].categoria = output.detalles[3].categoria
    /\ output.resumen[output.detalles[1].categoria] >= 2

(***************************************************************************)
(* C30: whenever classifyLine returns Churn or Rework, the author name of  *)
(* the matched range is present (not empty) and equal to the current       *)
(* author, and deltaDays is present; a line is never attributed to the     *)
(* same author when the range carries no author name, whatever is passed   *)
(* as current author, null and undefined included.                         *)
(***************************************************************************)
SameAuthorCategory == result.category \in {CHURN, REWORK}
SameAuthorEvidence ==
    /\ call.hunkType = REPLACE
    /\ Hits # {}
    /\ Present(NameOf(Matched))
    /\ NameOf(Matched) = call.currentAuthor
    /\ result.prevAuthor = NameOf(Matched)
    /\ result.deltaDays.t = "number"
SameAuthorNeedsNameUnlessNull ==
    (Classified /\ NumericBounds /\ SameAuthorCategory /\ call.currentAuthor # Null)
        => SameAuthorEvidence

====
